---- MODULE Spec2Model ----
(***************************************************************************)
(* Model of combating_covid_misinformation.ipynb: the notebook's pipeline  *)
(* of dependent Amazon Comprehend calls and its three custom botocore      *)
(* waiters (ClassifierTrainedWaiter, EndpointCreationWaiter, JobWaiter).   *)
(*                                                                         *)
(* The notebook builds each waiter with create_waiter_with_client from a   *)
(* WaiterModel (delay, maxAttempts, ordered acceptors) and calls wait().   *)
(* wait() is botocore.waiter.Waiter.wait; the model follows its loop:      *)
(*     current_state = 'waiting'; num_attempts = 0                         *)
(*     loop: response = operation(); num_attempts += 1                     *)
(*           first acceptor that matches sets current_state;               *)
(*           no match and an error response -> raise WaiterError           *)
(*           'success' -> return;  'failure' -> raise WaiterError          *)
(*           num_attempts >= max_attempts -> raise WaiterError             *)
(*           sleep(delay)                                                  *)
(* A ClientError of the operation is turned into an error response; any    *)
(* other exception of the operation leaves wait() as it is.                *)
(***************************************************************************)
EXTENDS Integers, Sequences, FiniteSets, TLC

VARIABLES
    role_exists,    \* the account has an IAM role named ComprehendRole
    stage,          \* the notebook cell about to run, "done" or "aborted"
    handle,         \* kind -> handle returned by the create/start call, "" before
    calls,          \* remote operation -> calls issued by the cells (not by wait())
    waited,         \* the kind whose wait() ran last (or is running), "none" before
    wait_arg,       \* the handle the running (or last) wait() was called with
    waitpc,         \* position inside the running wait(): idle, query, inflight, sleep
    num_attempts,   \* Waiter.wait's num_attempts
    current_state,  \* Waiter.wait's current_state
    last_response,  \* Waiter.wait's response of the last query
    issued,         \* status queries the running (or last) wait() has issued
    inflight,       \* status queries sent and not yet answered
    sleeps,         \* sleep(delay) suspensions of the running (or last) wait()
    feed,           \* what the remote operation reports to the running wait()
    firstTerm,      \* first terminal status delivered to the running wait()
    seen,           \* the distinct answers the running (or last) wait() has received
    outcome,        \* kind -> how that kind's wait() ended
    twin,           \* a second run of the same waiter's wait(): a fresh call on
                    \* another handle, given the answers the running wait() gets
    thr,            \* thread -> the wait() that thread runs (two waits at once)
    alone           \* thread -> the same wait() run with no other thread, given
                    \* the answers the thread's wait() gets

vars == <<role_exists, stage, handle, calls, waited, wait_arg, waitpc, num_attempts, current_state,
          last_response, issued, inflight, sleeps, feed, firstTerm, seen, outcome,
          twin, thr, alone>>

(***************************************************************************)
(* Bounds of the model.                                                    *)
(***************************************************************************)
\* Leading retry statuses are drawn from 0..MaxLead and from the two values
\* around the attempt budget (maxAttempts - 1 and maxAttempts).
MaxLead == 3

(***************************************************************************)
(* The three waiter configurations, as written in the notebook.            *)
(***************************************************************************)
Kinds == {"training", "endpoint", "job"}

\* JobWaiter with the endpoint waiter's budget.
JobWaiter_Max100 ==
    [operation   |-> "describe_document_classification_job",
     delay       |-> 30,
     maxAttempts |-> 100,
     acceptors   |-> << [expected |-> "COMPLETED",   state |-> "success"],
                        [expected |-> "SUBMITTED",   state |-> "retry"],
                        [expected |-> "IN_PROGRESS", state |-> "retry"],
                        [expected |-> "FAILED",      state |-> "failure"],
                        [expected |-> "STOPPED",     state |-> "failure"] >>]

\* EndpointCreationWaiter with UPDATING taken for a failure.
EndpointCreationWaiter_UpdatingFails ==
    [operation   |-> "describe_endpoint",
     delay       |-> 30,
     maxAttempts |-> 100,
     acceptors   |-> << [expected |-> "IN_SERVICE", state |-> "success"],
                        [expected |-> "UPDATING",   state |-> "failure"],
                        [expected |-> "CREATING",   state |-> "retry"],
                        [expected |-> "FAILED",     state |-> "failure"] >>]

ClassifierTrainedWaiter ==
    [operation   |-> "describe_document_classifier",
     delay       |-> 30,
     maxAttempts |-> 300,
     acceptors   |-> << [expected |-> "TRAINED",   state |-> "success"],
                        [expected |-> "SUBMITTED", state |-> "retry"],
                        [expected |-> "TRAINING",  state |-> "retry"],
                        [expected |-> "IN_ERROR",  state |-> "failure"],
                        [expected |-> "STOPPED",   state |-> "failure"] >>]

EndpointCreationWaiter ==
    [operation   |-> "describe_endpoint",
     delay       |-> 30,
     maxAttempts |-> 100,
     acceptors   |-> << [expected |-> "IN_SERVICE", state |-> "success"],
                        [expected |-> "UPDATING",   state |-> "retry"],
                        [expected |-> "CREATING",   state |-> "retry"],
                        [expected |-> "FAILED",     state |-> "failure"] >>]

JobWaiter ==
    [operation   |-> "describe_document_classification_job",
     delay       |-> 30,
     maxAttempts |-> 300,
     acceptors   |-> << [expected |-> "COMPLETED",   state |-> "success"],
                        [expected |-> "SUBMITTED",   state |-> "retry"],
                        [expected |-> "IN_PROGRESS", state |-> "retry"],
                        [expected |-> "FAILED",      state |-> "failure"],
                        [expected |-> "STOPPED",     state |-> "failure"] >>]

WaiterConfig(k) ==
    CASE k = "training" -> ClassifierTrainedWaiter
      [] k = "endpoint" -> EndpointCreationWaiter
      [] k = "job"      -> JobWaiter

Acceptors(k) == WaiterConfig(k).acceptors

MaxAttempts(k) == WaiterConfig(k).maxAttempts

\* The statuses a configuration's acceptors put in a given state.
StatusesIn(k, st) ==
    { Acceptors(k)[i].expected :
        i \in { j \in 1..Len(Acceptors(k)) : Acceptors(k)[j].state = st } }

SuccessStatuses(k) == StatusesIn(k, "success")
FailureStatuses(k) == StatusesIn(k, "failure")
RetryStatuses(k)   == StatusesIn(k, "retry")
Configured(k) == SuccessStatuses(k) \cup FailureStatuses(k) \cup RetryStatuses(k)

(***************************************************************************)
(* What the remote service can answer to a status query: the statuses the  *)
(* acceptors name, and the statuses the notebook reads elsewhere.  Its     *)
(* cleanup cell polls describe_endpoint while the status is DELETING: a    *)
(* status of the endpoint that EndpointCreationWaiter has no acceptor for. *)
(* The endpoint is a resource of the account, not of this notebook run:    *)
(* the waiters' own UPDATING and STOPPED acceptors are for statuses that   *)
(* only calls from outside this pipeline cause (an update or a stop), and  *)
(* a delete is one more such call.                                         *)
(***************************************************************************)
OtherStatuses(k) == IF k = "endpoint" THEN {"DELETING"} ELSE {}

Vocabulary(k) == Configured(k) \cup OtherStatuses(k)

\* A failed status query: the service answers with an error (botocore's
\* ClientError) or the request never completes (any other exception).
TransportFailures == {"ClientError", "ConnectionError"}

AllResults(k) == Vocabulary(k) \cup TransportFailures

NonRetryResults(k) == AllResults(k) \ RetryStatuses(k)

Unrecognized(k) == Vocabulary(k) \ Configured(k)

LeadChoices(k) == (0..MaxLead) \cup {MaxAttempts(k) - 1, MaxAttempts(k)}

(***************************************************************************)
(* botocore.waiter.Waiter.wait, one iteration.                             *)
(***************************************************************************)
\* A "path" acceptor matches when the response is not an error response and
\* the value at its argument path equals its expected value.
PathMatches(acceptor, response) ==
    /\ response \notin TransportFailures
    /\ response = acceptor.expected

\* for acceptor in acceptors: if acceptor.matcher_func(response): ... break
\* The index of the first acceptor that matches, 0 when none does.
RECURSIVE FirstMatch(_, _, _)
FirstMatch(accs, response, i) ==
    IF i > Len(accs) THEN 0
    ELSE IF PathMatches(accs[i], response) THEN i
    ELSE FirstMatch(accs, response, i + 1)

(***************************************************************************)
(* Variants of the iteration with one slip each, used to see that the      *)
(* properties below depend on the loop as it is.                           *)
(***************************************************************************)
\* The attempt budget is checked before the success and failure states.
WaitIteration_BudgetFirst(k, cur, n, response) ==
    IF response = "ConnectionError"
    THEN [state |-> cur, attempts |-> n, exit |-> "exception"]
    ELSE LET m  == FirstMatch(Acceptors(k), response, 1)
             st == IF m # 0 THEN Acceptors(k)[m].state ELSE cur
         IN  [state    |-> st,
              attempts |-> n + 1,
              exit     |-> IF m = 0 /\ response = "ClientError" THEN "error"
                           ELSE IF n + 1 >= MaxAttempts(k) THEN "timeout"
                           ELSE IF st = "success" THEN "success"
                           ELSE IF st = "failure" THEN "failure"
                           ELSE "sleep"]

\* The failure state does not end the wait.
WaitIteration_FailureKeepsWaiting(k, cur, n, response) ==
    IF response = "ConnectionError"
    THEN [state |-> cur, attempts |-> n, exit |-> "exception"]
    ELSE LET m  == FirstMatch(Acceptors(k), response, 1)
             st == IF m # 0 THEN Acceptors(k)[m].state ELSE cur
         IN  [state    |-> st,
              attempts |-> n + 1,
              exit     |-> IF m = 0 /\ response = "ClientError" THEN "error"
                           ELSE IF st = "success" THEN "success"
                           ELSE IF n + 1 >= MaxAttempts(k) THEN "timeout"
                           ELSE "sleep"]

\* The budget comparison is > instead of >=.
WaitIteration_OffByOne(k, cur, n, response) ==
    IF response = "ConnectionError"
    THEN [state |-> cur, attempts |-> n, exit |-> "exception"]
    ELSE LET m  == FirstMatch(Acceptors(k), response, 1)
             st == IF m # 0 THEN Acceptors(k)[m].state ELSE cur
         IN  [state    |-> st,
              attempts |-> n + 1,
              exit     |-> IF m = 0 /\ response = "ClientError" THEN "error"
                           ELSE IF st = "success" THEN "success"
                           ELSE IF st = "failure" THEN "failure"
                           ELSE IF n + 1 > MaxAttempts(k) THEN "timeout"
                           ELSE "sleep"]

\* A failed query is not raised: the loop goes round again.
WaitIteration_ErrorRetried(k, cur, n, response) ==
    LET m  == FirstMatch(Acceptors(k), response, 1)
        st == IF m # 0 THEN Acceptors(k)[m].state ELSE cur
    IN  [state    |-> st,
         attempts |-> n + 1,
         exit     |-> IF st = "success" THEN "success"
                      ELSE IF st = "failure" THEN "failure"
                      ELSE IF n + 1 >= MaxAttempts(k) THEN "timeout"
                      ELSE "sleep"]

\* The exit tests read the state of the previous iteration.
WaitIteration_LateExit(k, cur, n, response) ==
    IF response = "ConnectionError"
    THEN [state |-> cur, attempts |-> n, exit |-> "exception"]
    ELSE LET m  == FirstMatch(Acceptors(k), response, 1)
             st == IF m # 0 THEN Acceptors(k)[m].state ELSE cur
         IN  [state    |-> st,
              attempts |-> n + 1,
              exit     |-> IF m = 0 /\ response = "ClientError" THEN "error"
                           ELSE IF cur = "success" THEN "success"
                           ELSE IF cur = "failure" THEN "failure"
                           ELSE IF n + 1 >= MaxAttempts(k) THEN "timeout"
                           ELSE "sleep"]

\* There is no attempt budget.
WaitIteration_NoBudget(k, cur, n, response) ==
    IF response = "ConnectionError"
    THEN [state |-> cur, attempts |-> n, exit |-> "exception"]
    ELSE LET m  == FirstMatch(Acceptors(k), response, 1)
             st == IF m # 0 THEN Acceptors(k)[m].state ELSE cur
         IN  [state    |-> st,
              attempts |-> n + 1,
              exit     |-> IF m = 0 /\ response = "ClientError" THEN "error"
                           ELSE IF st = "success" THEN "success"
                           ELSE IF st = "failure" THEN "failure"
                           ELSE "sleep"]

\* The body of the while-loop after the operation was called with result
\* `response`: the new current_state and num_attempts, and how the iteration
\* leaves: "sleep" (go round again) or the way wait() ends.
\*   "success"   wait() returns
\*   "failure"   WaiterError, terminal failure state
\*   "timeout"   WaiterError, max attempts exceeded
\*   "error"     WaiterError, the service answered with an error
\*   "exception" the operation's own exception, not a WaiterError
WaitIteration(k, cur, n, response) ==
    IF response = "ConnectionError"
    THEN [state |-> cur, attempts |-> n, exit |-> "exception"]
    ELSE LET m  == FirstMatch(Acceptors(k), response, 1)
             st == IF m # 0 THEN Acceptors(k)[m].state ELSE cur
         IN  [state    |-> st,
              attempts |-> n + 1,
              exit     |-> IF m = 0 /\ response = "ClientError" THEN "error"
                           ELSE IF st = "success" THEN "success"
                           ELSE IF st = "failure" THEN "failure"
                           ELSE IF n + 1 >= MaxAttempts(k) THEN "timeout"
                           ELSE "sleep"]

(***************************************************************************)
(* The notebook's cells, in order.                                         *)
(***************************************************************************)
Cells == << "create_classifier", "describe_classifier", "wait_training",
            "create_endpoint", "describe_endpoint", "wait_endpoint",
            "classify_1", "classify_2", "upload_test_data",
            "start_job", "describe_job", "wait_job",
            "download", "done" >>

CellIndex(c) == CHOOSE i \in 1..Len(Cells) : Cells[i] = c

NextCell(c) == Cells[CellIndex(c) + 1]

WaitCell(k) ==
    CASE k = "training" -> "wait_training"
      [] k = "endpoint" -> "wait_endpoint"
      [] k = "job"      -> "wait_job"

Operations == { "create_document_classifier", "describe_document_classifier",
                "create_endpoint", "describe_endpoint", "classify_document",
                "upload_data", "start_document_classification_job",
                "describe_document_classification_job", "download_file" }

\* The cell catches the WaiterError and does not re-raise it.
AfterWait_Swallow(k, exit) ==
    IF exit \in {"success", "failure", "timeout", "error"}
    THEN NextCell(WaitCell(k)) ELSE "aborted"

\* The cell goes on after a terminal failure state.
AfterWait_FailureContinues(k, exit) ==
    IF exit \in {"success", "failure"} THEN NextCell(WaitCell(k)) ELSE "aborted"

\* try: waiter.wait(...); print(...)  except WaiterError as e: print(e); raise e
\* The cell to run after wait() left with `exit`: the following cell when it
\* returned, none when it raised (the cell re-raises a WaiterError and does
\* not catch anything else).
AfterWait(k, exit) ==
    IF exit = "success" THEN NextCell(WaitCell(k)) ELSE "aborted"

NoOutcome == [kind |-> "none", status |-> "none", raised |-> FALSE]

NoFeed == [lead |-> 0, tail |-> "none"]

NoTerm == [pos |-> 0, status |-> "none"]

\* The locals of a wait() that has just been entered.
FreshRun == [current_state |-> "waiting", num_attempts |-> 0, issued |-> 0,
             last_response |-> "none", exit |-> "none"]

\* One more iteration of a run of wait() with answer r; a run that has left
\* wait() stays as it is.
RunAlone(k, run, r) ==
    IF run.exit # "none" THEN run
    ELSE LET w == WaitIteration(k, run.current_state, run.num_attempts, r)
         IN  [current_state |-> w.state,
              num_attempts  |-> w.attempts,
              issued        |-> run.issued + 1,
              last_response |-> r,
              exit          |-> IF w.exit = "sleep" THEN "none" ELSE w.exit]

\* job_id=create_job_desc["JobId"]: the service makes up a new id for every job.
JobIds == {"job_id_1", "job_id_2"}

\* Two waits at once: the training wait in one thread, the job wait in
\* another.  The notebook itself runs its waits one after the other.
Threads == {1, 2}

ThreadKind(i) == IF i = 1 THEN "training" ELSE "job"

\* The handles a thread's wait() can be called with.
ThreadHandles(i) == IF i = 1 THEN {"doc_classifier_arn"} ELSE JobIds

\* A thread that has not entered wait().
NoThread == [pc |-> "idle", arg |-> "", num_attempts |-> 0,
             current_state |-> "waiting", last_response |-> "none",
             issued |-> 0, feed |-> NoFeed, exit |-> "none"]

Init ==
    /\ role_exists \in BOOLEAN
    /\ stage = "get_role"
    /\ handle = [k \in Kinds |-> ""]
    /\ calls = [op \in Operations |-> 0]
    /\ waited = "none"
    /\ wait_arg = ""
    /\ waitpc = "idle"
    /\ num_attempts = 0
    /\ current_state = "waiting"
    /\ last_response = "none"
    /\ issued = 0
    /\ inflight = 0
    /\ sleeps = 0
    /\ feed = NoFeed
    /\ firstTerm = NoTerm
    /\ seen = {}
    /\ outcome = [k \in Kinds |-> NoOutcome]
    /\ twin = FreshRun
    /\ thr = [i \in Threads |-> NoThread]
    /\ alone = [i \in Threads |-> FreshRun]

waitVars == <<waited, wait_arg, waitpc, num_attempts, current_state, last_response, issued,
              inflight, sleeps, feed, firstTerm, seen, outcome, twin, thr, alone>>

\* A cell that is one remote call: the call is issued; the next cell runs
\* when it returns, and the notebook stops when it raises.
RemoteCall(cell, op) ==
    /\ stage = cell
    /\ calls' = [calls EXCEPT ![op] = @ + 1]
    /\ \E ok \in BOOLEAN : stage' = IF ok THEN NextCell(cell) ELSE "aborted"

\* A create/start call: as RemoteCall, and its response gives the handle.
CreateCall(cell, op, k, h) ==
    /\ stage = cell
    /\ calls' = [calls EXCEPT ![op] = @ + 1]
    /\ \E ok \in BOOLEAN :
         /\ stage' = IF ok THEN NextCell(cell) ELSE "aborted"
         /\ handle' = IF ok THEN [handle EXCEPT ![k] = h] ELSE handle

(***************************************************************************)
(* The IAM role cell: "Create IAM Role if it does not exist".              *)
(*     try: client_iam.get_role(RoleName=comprehend_role_name)             *)
(*     except: client_iam.create_role(RoleName=comprehend_role_name, ...)  *)
(*     comprehend_role_arn = client_iam.get_role(...)["Role"]["Arn"]       *)
(*     client_iam.attach_role_policy(...); sleep(60)                       *)
(***************************************************************************)
\* What get_role can do: return the role when it exists, or raise; it
\* raises NoSuchEntity when the role is absent and, like every call, can
\* fail for another reason (throttling, credentials, the connection).
GetRoleResults(exists) == IF exists THEN {"role", "raises"} ELSE {"raises"}

\* try: get_role ... except: create_role.  The except clause is bare: every
\* exception of get_role leads to create_role.
AfterGetRole(exists, result) ==
    IF result = "role" THEN "get_role_arn" ELSE "create_role"

GetRole ==
    /\ stage = "get_role"
    /\ \E r \in GetRoleResults(role_exists) :
         stage' = AfterGetRole(role_exists, r)
    /\ UNCHANGED <<role_exists, handle, calls, waitVars>>

\* create_role raises EntityAlreadyExists when the role exists; otherwise it
\* creates the role or fails.
CreateRole ==
    /\ stage = "create_role"
    /\ IF role_exists
       THEN stage' = "aborted" /\ UNCHANGED role_exists
       ELSE \E ok \in BOOLEAN :
              /\ role_exists' = ok
              /\ stage' = IF ok THEN "get_role_arn" ELSE "aborted"
    /\ UNCHANGED <<handle, calls, waitVars>>

\* comprehend_role_arn = client_iam.get_role(...)["Role"]["Arn"]
GetRoleArn ==
    /\ stage = "get_role_arn"
    /\ \E r \in GetRoleResults(role_exists) :
         stage' = IF r = "role" THEN "attach_role_policy" ELSE "aborted"
    /\ UNCHANGED <<role_exists, handle, calls, waitVars>>

\* client_iam.attach_role_policy(...); sleep(60)
AttachRolePolicy ==
    /\ stage = "attach_role_policy"
    /\ \E ok \in BOOLEAN :
         stage' = IF ok THEN Cells[1] ELSE "aborted"
    /\ UNCHANGED <<role_exists, handle, calls, waitVars>>

CreateClassifier ==
    /\ CreateCall("create_classifier", "create_document_classifier",
                  "training", "doc_classifier_arn")
    /\ UNCHANGED <<role_exists, waitVars>>

DescribeClassifier ==
    /\ RemoteCall("describe_classifier", "describe_document_classifier")
    /\ UNCHANGED <<role_exists, handle, waitVars>>

CreateEndpoint ==
    /\ CreateCall("create_endpoint", "create_endpoint", "endpoint", "endpoint_arn")
    /\ UNCHANGED <<role_exists, waitVars>>

DescribeEndpoint ==
    /\ RemoteCall("describe_endpoint", "describe_endpoint")
    /\ UNCHANGED <<role_exists, handle, waitVars>>

ClassifyDocument ==
    /\ \/ RemoteCall("classify_1", "classify_document")
       \/ RemoteCall("classify_2", "classify_document")
    /\ UNCHANGED <<role_exists, handle, waitVars>>

UploadTestData ==
    /\ RemoteCall("upload_test_data", "upload_data")
    /\ UNCHANGED <<role_exists, handle, waitVars>>

StartJob ==
    /\ \E id \in JobIds :
         CreateCall("start_job", "start_document_classification_job", "job", id)
    /\ UNCHANGED <<role_exists, waitVars>>

DescribeJob ==
    /\ RemoteCall("describe_job", "describe_document_classification_job")
    /\ UNCHANGED <<role_exists, handle, waitVars>>

Download ==
    /\ RemoteCall("download", "download_file")
    /\ UNCHANGED <<role_exists, handle, waitVars>>

(***************************************************************************)
(* wait(): entry, one query, its answer, the suspension.                   *)
(***************************************************************************)
\* What the remote operation answers to query number n of the running wait:
\* feed.lead retry statuses, then feed.tail, then anything it can report.
Delivered(k, n) ==
    IF n <= feed.lead THEN RetryStatuses(k)
    ELSE IF n = feed.lead + 1 THEN {feed.tail}
    ELSE AllResults(k)

\* num_attempts lives in the waiter object and is not reset on entry.
StartWait_KeepsAttempts(k) ==
    /\ stage = WaitCell(k)
    /\ waitpc = "idle"
    /\ waited' = k
    /\ wait_arg' = handle[k]
    /\ waitpc' = "query"
    /\ num_attempts' = num_attempts
    /\ current_state' = "waiting"
    /\ last_response' = "none"
    /\ issued' = 0
    /\ sleeps' = 0
    /\ firstTerm' = NoTerm
    /\ seen' = {}
    /\ twin' = FreshRun
    /\ \E l \in LeadChoices(k), t \in NonRetryResults(k) :
         feed' = [lead |-> l, tail |-> t]
    /\ UNCHANGED <<role_exists, stage, handle, calls, inflight, outcome, thr, alone>>

\* waiter.wait(<handle>): current_state = 'waiting', num_attempts = 0.
StartWait(k) ==
    /\ stage = WaitCell(k)
    /\ waitpc = "idle"
    /\ waited' = k
    /\ wait_arg' = handle[k]
    /\ waitpc' = "query"
    /\ num_attempts' = 0
    /\ current_state' = "waiting"
    /\ last_response' = "none"
    /\ issued' = 0
    /\ sleeps' = 0
    /\ firstTerm' = NoTerm
    /\ seen' = {}
    /\ twin' = FreshRun
    /\ \E l \in LeadChoices(k), t \in NonRetryResults(k) :
         feed' = [lead |-> l, tail |-> t]
    /\ UNCHANGED <<role_exists, stage, handle, calls, inflight, outcome, thr, alone>>

\* The operation the notebook starts the remote operation of kind k with.
StartOperation(k) ==
    CASE k = "training" -> "create_document_classifier"
      [] k = "endpoint" -> "create_endpoint"
      [] k = "job"      -> "start_document_classification_job"

\* Every poll also issues the call that starts the operation.
SendQuery_Restarts(k) ==
    /\ stage = WaitCell(k)
    /\ waitpc = "query"
    /\ waitpc' = "inflight"
    /\ issued' = issued + 1
    /\ inflight' = inflight + 1
    /\ calls' = [calls EXCEPT ![StartOperation(k)] = @ + 1]
    /\ UNCHANGED <<role_exists, stage, handle, waited, wait_arg,
                   num_attempts, current_state, last_response, sleeps, feed,
                   firstTerm, seen, outcome, twin, thr, alone>>

\* response = self._operation_method(**kwargs): the request leaves.
SendQuery(k) ==
    /\ stage = WaitCell(k)
    /\ waitpc = "query"
    /\ waitpc' = "inflight"
    /\ issued' = issued + 1
    /\ inflight' = inflight + 1
    /\ UNCHANGED <<role_exists, stage, handle, calls, waited, wait_arg,
                   num_attempts, current_state, last_response, sleeps, feed,
                   firstTerm, seen, outcome, twin, thr, alone>>

\* The answer arrives and the rest of the iteration runs; when wait() ends,
\* the cell's try/except decides what runs next.
ReceiveResponse(k) ==
    /\ stage = WaitCell(k)
    /\ waitpc = "inflight"
    /\ \E r \in Delivered(k, issued) :
         LET w == WaitIteration(k, current_state, num_attempts, r) IN
         /\ last_response' = r
         /\ twin' = RunAlone(k, twin, r)
         /\ seen' = seen \cup {r}
         /\ num_attempts' = w.attempts
         /\ current_state' = w.state
         /\ firstTerm' = IF firstTerm.pos = 0
                            /\ r \in SuccessStatuses(k) \cup FailureStatuses(k)
                         THEN [pos |-> issued, status |-> r]
                         ELSE firstTerm
         /\ IF w.exit = "sleep"
            THEN /\ waitpc' = "sleep"
                 /\ UNCHANGED <<stage, outcome>>
            ELSE /\ waitpc' = "idle"
                 /\ outcome' = [outcome EXCEPT ![k] =
                                  [kind     |-> w.exit,
                                   status   |-> r,
                                   raised   |-> w.exit # "success"]]
                 /\ stage' = AfterWait(k, w.exit)
    /\ inflight' = inflight - 1
    /\ UNCHANGED <<role_exists, handle, calls, waited, wait_arg, issued, sleeps,
                   feed, thr, alone>>

\* The loop sleeps at its top and at its bottom.
Sleep_Twice(k) ==
    /\ stage = WaitCell(k)
    /\ waitpc = "sleep"
    /\ waitpc' = "query"
    /\ sleeps' = sleeps + 2
    /\ UNCHANGED <<role_exists, stage, handle, calls, waited, wait_arg,
                   num_attempts, current_state, last_response, issued, inflight,
                   feed, firstTerm, seen, outcome, twin, thr, alone>>

\* time.sleep(sleep_amount)
Sleep(k) ==
    /\ stage = WaitCell(k)
    /\ waitpc = "sleep"
    /\ waitpc' = "query"
    /\ sleeps' = sleeps + 1
    /\ UNCHANGED <<role_exists, stage, handle, calls, waited, wait_arg,
                   num_attempts, current_state, last_response, issued, inflight,
                   feed, firstTerm, seen, outcome, twin, thr, alone>>

Next ==
    \/ GetRole
    \/ CreateRole
    \/ GetRoleArn
    \/ AttachRolePolicy
    \/ CreateClassifier
    \/ DescribeClassifier
    \/ CreateEndpoint
    \/ DescribeEndpoint
    \/ ClassifyDocument
    \/ UploadTestData
    \/ StartJob
    \/ DescribeJob
    \/ Download
    \/ \E k \in Kinds : StartWait(k)
    \/ \E k \in Kinds : SendQuery(k)
    \/ \E k \in Kinds : ReceiveResponse(k)
    \/ \E k \in Kinds : Sleep(k)

Spec == Init /\ [][Next]_vars

(***************************************************************************)
(* Two waits at once, each in its own thread with its own waiter object    *)
(* and its own handle; the threads share the comprehend client only.       *)
(***************************************************************************)
notebookVars == <<role_exists, stage, handle, calls, waited, wait_arg, waitpc,
                  num_attempts, current_state, last_response, issued, inflight,
                  sleeps, feed, firstTerm, seen, outcome, twin>>

\* What thread i's remote operation answers to its query number n: the
\* feed's retry statuses, then its tail.
ThreadDelivered(i, n) ==
    IF n <= thr[i].feed.lead THEN RetryStatuses(ThreadKind(i))
    ELSE {thr[i].feed.tail}

\* waiter.wait(<handle>) in thread i.
TStart(i) ==
    /\ thr[i].pc = "idle"
    /\ \E a \in ThreadHandles(i), l \in 0..MaxLead,
          t \in NonRetryResults(ThreadKind(i)) \ Unrecognized(ThreadKind(i)) :
         thr' = [thr EXCEPT ![i] =
                    [pc |-> "query", arg |-> a, num_attempts |-> 0,
                     current_state |-> "waiting", last_response |-> "none",
                     issued |-> 0, feed |-> [lead |-> l, tail |-> t],
                     exit |-> "none"]]
    /\ alone' = [alone EXCEPT ![i] = FreshRun]
    /\ UNCHANGED notebookVars

\* Thread i's wait() sends its query.
TSend(i) ==
    /\ thr[i].pc = "query"
    /\ thr' = [thr EXCEPT ![i].pc = "inflight", ![i].issued = @ + 1]
    /\ UNCHANGED <<alone, notebookVars>>

\* num_attempts is one counter that all waiters share.
TReceive_SharedCounter(i) ==
    /\ thr[i].pc = "inflight"
    /\ \E r \in ThreadDelivered(i, thr[i].issued) :
         LET w == WaitIteration(ThreadKind(i), thr[i].current_state,
                                thr[i].num_attempts, r)
         IN  /\ thr' = [j \in Threads |->
                          IF j = i
                          THEN [thr[i] EXCEPT
                                  !.pc = IF w.exit = "sleep" THEN "sleep" ELSE "ended",
                                  !.num_attempts = w.attempts,
                                  !.current_state = w.state,
                                  !.last_response = r,
                                  !.exit = IF w.exit = "sleep" THEN "none" ELSE w.exit]
                          ELSE [thr[j] EXCEPT !.num_attempts = w.attempts]]
             /\ alone' = [alone EXCEPT ![i] = RunAlone(ThreadKind(i), alone[i], r)]
    /\ UNCHANGED notebookVars

\* The answer to thread i's query arrives and the rest of its iteration runs.
TReceive(i) ==
    /\ thr[i].pc = "inflight"
    /\ \E r \in ThreadDelivered(i, thr[i].issued) :
         LET w == WaitIteration(ThreadKind(i), thr[i].current_state,
                                thr[i].num_attempts, r)
         IN  /\ thr' = [thr EXCEPT
                          ![i].pc = IF w.exit = "sleep" THEN "sleep" ELSE "ended",
                          ![i].num_attempts = w.attempts,
                          ![i].current_state = w.state,
                          ![i].last_response = r,
                          ![i].exit = IF w.exit = "sleep" THEN "none" ELSE w.exit]
             /\ alone' = [alone EXCEPT ![i] = RunAlone(ThreadKind(i), alone[i], r)]
    /\ UNCHANGED notebookVars

\* time.sleep(sleep_amount) in thread i.
TSleep(i) ==
    /\ thr[i].pc = "sleep"
    /\ thr' = [thr EXCEPT ![i].pc = "query"]
    /\ UNCHANGED <<alone, notebookVars>>

ThreadsInit == Init /\ role_exists

ThreadsNext ==
    \/ \E i \in Threads : TStart(i)
    \/ \E i \in Threads : TSend(i)
    \/ \E i \in Threads : TReceive(i)
    \/ \E i \in Threads : TSleep(i)

ThreadsSpec == ThreadsInit /\ [][ThreadsNext]_vars

\* wait() is straight-line code in one thread: a query that was sent is
\* answered or raises, a sleep returns, and the loop goes on to its next
\* statement.
WaitStep == \E k \in Kinds : SendQuery(k) \/ ReceiveResponse(k) \/ Sleep(k)

LiveSpec == Spec /\ WF_vars(WaitStep)

(***************************************************************************)
(* Properties.                                                             *)
(*                                                                         *)
(* The answers the running wait() gets are feed.lead retry statuses        *)
(* followed by feed.tail.  Read against the spec's outcomes: exit          *)
(* "success" is Success, "failure" is OperationFailed, "timeout" is        *)
(* Timeout, "error" and "exception" are TransportError.                    *)
(***************************************************************************)
\* The wait() of kind k has ended and the wait variables are still its own.
Ended(k) == waited = k /\ stage # WaitCell(k)

\* C1 (as stated): whatever the number of leading retry statuses, a status
\* sequence that ends in a success status makes wait() end in Success with
\* that status.
C1_SuccessAfterAnyLead ==
    \A k \in Kinds :
        (Ended(k) /\ feed.tail \in SuccessStatuses(k))
            => (outcome[k].kind = "success" /\ outcome[k].status = feed.tail)

\* C1 (amended): a status sequence of fewer than maxAttempts leading retry
\* statuses followed by a success status makes wait() end in Success with
\* that status, at the query that observed it; with maxAttempts or more
\* leading retry statuses the wait ends in Timeout instead.
C1_SuccessWithinBudget ==
    \A k \in Kinds :
        (Ended(k) /\ feed.tail \in SuccessStatuses(k))
            => IF feed.lead < MaxAttempts(k)
               THEN /\ outcome[k].kind = "success"
                    /\ outcome[k].status = feed.tail
                    /\ ~outcome[k].raised
                    /\ issued = feed.lead + 1
               ELSE outcome[k].kind = "timeout"

\* The success status arrives at the last query of the budget.
C1_Witness ==
    /\ Ended("training")
    /\ feed = [lead |-> MaxAttempts("training") - 1, tail |-> "TRAINED"]
    /\ outcome["training"].kind = "success"
    /\ num_attempts = MaxAttempts("training")

\* C2 (as stated): every status sequence that ends in a failure status makes
\* wait() return OperationFailed with that status, as a value and not as a
\* raised error.
C2_FailureAsValue ==
    \A k \in Kinds :
        (Ended(k) /\ feed.tail \in FailureStatuses(k))
            => /\ outcome[k].kind = "failure"
               /\ outcome[k].status = feed.tail
               /\ ~outcome[k].raised

\* C2 (amended): a status sequence of fewer than maxAttempts leading retry
\* statuses followed by a failure status ends wait() at that query with the
\* terminal-failure outcome for that status, in each of the three
\* configurations; the outcome is a raised WaiterError, which the cell
\* re-raises, so the notebook stops.
C2_FailureRaisedWithinBudget ==
    \A k \in Kinds :
        (Ended(k) /\ feed.tail \in FailureStatuses(k))
            => IF feed.lead < MaxAttempts(k)
               THEN /\ outcome[k].kind = "failure"
                    /\ outcome[k].status = feed.tail
                    /\ outcome[k].raised
                    /\ issued = feed.lead + 1
                    /\ stage = "aborted"
               ELSE outcome[k].kind = "timeout"

\* [CREATING, CREATING, FAILED] on the endpoint: failure after 3 queries.
C2_Witness ==
    /\ Ended("endpoint")
    /\ feed = [lead |-> 2, tail |-> "FAILED"]
    /\ outcome["endpoint"] = [kind |-> "failure", status |-> "FAILED", raised |-> TRUE]
    /\ issued = 3

\* C3: when the first maxAttempts answers are all retry statuses, wait() ends
\* in Timeout with num_attempts = maxAttempts after exactly maxAttempts
\* queries: it never issues another one, and it has ended as soon as the
\* answer to query number maxAttempts is in.
C3_TimeoutAtBudget ==
    \A k \in Kinds :
        (waited = k /\ feed.lead >= MaxAttempts(k))
            => /\ issued <= MaxAttempts(k)
               /\ Ended(k) => /\ outcome[k].kind = "timeout"
                              /\ num_attempts = MaxAttempts(k)
                              /\ issued = MaxAttempts(k)
                              /\ seen \subseteq RetryStatuses(k)
               /\ (issued = MaxAttempts(k) /\ waitpc # "inflight") => Ended(k)

\* The endpoint wait timed out on 100 retry statuses.
C3_Witness ==
    /\ Ended("endpoint")
    /\ outcome["endpoint"].kind = "timeout"
    /\ issued = 100
    /\ seen \subseteq {"CREATING", "UPDATING"}

\* C4 (as stated): a status that no acceptor of the configuration names ends
\* wait() with a raised error at the query that returned it, and no further
\* query follows.
C4_UnrecognizedRaises ==
    \A k \in Kinds :
        (waited = k /\ last_response \in Unrecognized(k))
            => /\ Ended(k)
               /\ outcome[k].raised
               /\ outcome[k].status = last_response
               /\ stage = "aborted"

\* C5: a failed status query ends wait() at once with a raised error that is
\* neither Timeout nor OperationFailed; the query after it is never issued
\* and the notebook stops.
C5_TransportFailureEndsWait ==
    \A k \in Kinds :
        /\ (waited = k /\ seen \cap TransportFailures # {})
              => /\ Ended(k)
                 /\ last_response \in TransportFailures
                 /\ outcome[k].kind = (IF last_response = "ClientError"
                                       THEN "error" ELSE "exception")
                 /\ outcome[k].status = last_response
                 /\ outcome[k].raised
                 /\ inflight = 0
                 /\ stage = "aborted"
        /\ (Ended(k) /\ feed.tail \in TransportFailures
                     /\ feed.lead < MaxAttempts(k))
              => /\ issued = feed.lead + 1
                 /\ last_response = feed.tail

\* The third status query of the batch job's wait failed.
C5_Witness ==
    /\ Ended("job")
    /\ feed = [lead |-> 2, tail |-> "ClientError"]
    /\ issued = 3
    /\ outcome["job"] = [kind |-> "error", status |-> "ClientError", raised |-> TRUE]

\* C6: the first terminal status delivered decides the wait: wait() has
\* ended when it is in, with that status and with Success or OperationFailed
\* according to its set, and the number of queries issued is its position in
\* the sequence; Success and OperationFailed have no other cause.
C6_FirstTerminalDecides ==
    \A k \in Kinds :
        waited = k =>
            /\ firstTerm.pos # 0
                  => /\ Ended(k)
                     /\ outcome[k].status = firstTerm.status
                     /\ outcome[k].kind = (IF firstTerm.status \in SuccessStatuses(k)
                                           THEN "success" ELSE "failure")
                     /\ issued = firstTerm.pos
                     /\ num_attempts = firstTerm.pos
            /\ (Ended(k) /\ outcome[k].kind \in {"success", "failure"})
                  => firstTerm.pos # 0

\* [SUBMITTED, TRAINING, ..., TRAINED]: Success(TRAINED) after 4 queries.
C6_Witness ==
    /\ Ended("training")
    /\ seen = {"SUBMITTED", "TRAINING", "TRAINED"}
    /\ firstTerm = [pos |-> 4, status |-> "TRAINED"]
    /\ issued = 4
    /\ outcome["training"] = [kind |-> "success", status |-> "TRAINED", raised |-> FALSE]

\* C7 (as stated): no poll observes a status outside the success, failure and
\* retry statuses of its configuration.
C7_StatusesCovered ==
    \A k \in Kinds :
        waited = k => (seen \ TransportFailures) \subseteq Configured(k)

\* The classification the spec documents for each configuration.
Documented(k, c) ==
    CASE k = "training" ->
           (CASE c = "retry"   -> {"SUBMITTED", "TRAINING"}
              [] c = "success" -> {"TRAINED"}
              [] c = "failure" -> {"IN_ERROR", "STOPPED"})
      [] k = "endpoint" ->
           (CASE c = "retry"   -> {"CREATING", "UPDATING"}
              [] c = "success" -> {"IN_SERVICE"}
              [] c = "failure" -> {"FAILED"})
      [] k = "job" ->
           (CASE c = "retry"   -> {"SUBMITTED", "IN_PROGRESS"}
              [] c = "success" -> {"COMPLETED"}
              [] c = "failure" -> {"FAILED", "STOPPED"})

\* C8: each configuration's acceptors put exactly the documented statuses in
\* retry, success and failure, no status is named by two acceptors, and a
\* wait that has received a documented status is in the documented state.
C8_ClassifiesAsDocumented ==
    \A k \in Kinds :
        /\ \A c \in {"retry", "success", "failure"} :
              /\ StatusesIn(k, c) = Documented(k, c)
              /\ (waited = k /\ last_response \in Documented(k, c))
                    => current_state = c
        /\ \A i, j \in 1..Len(Acceptors(k)) :
              i # j => Acceptors(k)[i].expected # Acceptors(k)[j].expected

\* The endpoint wait goes on after UPDATING.
C8_Witness ==
    /\ waited = "endpoint"
    /\ last_response = "UPDATING"
    /\ current_state = "retry"
    /\ waitpc = "sleep"

\* C9 (as stated): the batch job's wait, answered IN_PROGRESS 100 times, has
\* ended in Timeout with 100 attempts.
C9_JobTimeoutAt100 ==
    (/\ waited = "job"
     /\ seen = {"IN_PROGRESS"}
     /\ issued = 100
     /\ waitpc # "inflight")
        => /\ Ended("job")
           /\ outcome["job"].kind = "timeout"
           /\ num_attempts = 100

\* C9 (amended): the batch job's budget is the JobWaiter's maxAttempts, 300:
\* answered IN_PROGRESS only, the wait goes on after fewer than 300 queries
\* (after 100 too) and ends in Timeout with 300 attempts once query 300 is
\* answered.
C9_JobTimeoutAt300 ==
    (/\ waited = "job"
     /\ seen = {"IN_PROGRESS"}
     /\ waitpc # "inflight")
        => IF issued < 300
           THEN ~Ended("job") /\ waitpc \in {"sleep", "query"}
           ELSE /\ issued = 300
                /\ num_attempts = 300
                /\ Ended("job")
                /\ outcome["job"].kind = "timeout"

\* 300 answers IN_PROGRESS and the wait timed out.
C9_Witness ==
    /\ Ended("job")
    /\ seen = {"IN_PROGRESS"}
    /\ issued = 300
    /\ outcome["job"].kind = "timeout"

\* C10: once a wait has ended in OperationFailed or Timeout the notebook has
\* stopped: no step issues another remote call, from a cell or from a wait.
C10_AbortOnFailureAndTimeout ==
    [][ (\E k \in Kinds : outcome[k].kind \in {"failure", "timeout"})
           => /\ stage = "aborted"
              /\ calls' = calls
              /\ issued' = issued
              /\ stage' = stage ]_vars

\* The endpoint wait timed out; nothing after it was called.
C10_Witness ==
    /\ outcome["endpoint"].kind = "timeout"
    /\ stage = "aborted"
    /\ calls["create_endpoint"] = 1
    /\ calls["classify_document"] = 0
    /\ calls["start_document_classification_job"] = 0
    /\ calls["download_file"] = 0

\* C11: create_endpoint is called only after the training wait ended in
\* success on TRAINED; classify_document and
\* start_document_classification_job only after the endpoint wait ended in
\* success on IN_SERVICE; download_file only after the job wait ended in
\* success on COMPLETED; and a wait is called only with the handle that an
\* earlier create/start call returned.
C11_PipelineOrder ==
    /\ calls["create_endpoint"] > 0
          => outcome["training"] = [kind |-> "success", status |-> "TRAINED",
                                    raised |-> FALSE]
    /\ (calls["classify_document"] > 0
          \/ calls["start_document_classification_job"] > 0)
          => outcome["endpoint"] = [kind |-> "success", status |-> "IN_SERVICE",
                                    raised |-> FALSE]
    /\ calls["download_file"] > 0
          => outcome["job"] = [kind |-> "success", status |-> "COMPLETED",
                               raised |-> FALSE]
    /\ \A k \in Kinds :
          waited = k => /\ wait_arg # ""
                        /\ wait_arg = handle[k]
                        /\ calls[StartOperation(k)] > 0

\* The whole pipeline ran.
C11_Witness ==
    /\ stage = "done"
    /\ calls["download_file"] = 1
    /\ calls["classify_document"] = 2
    /\ \A k \in Kinds : outcome[k].kind = "success"
    /\ wait_arg \in JobIds

\* C14: a step of a wait() issues at most a status query: it calls no other
\* remote operation, changes neither the handles nor the handle it was called
\* with, and does not change what the remote operation reports.
C14_WaitOnlyReads ==
    [][ (waitpc # "idle")
           => /\ calls' = calls
              /\ handle' = handle
              /\ role_exists' = role_exists
              /\ wait_arg' = wait_arg
              /\ wait_arg' = handle[waited]
              /\ feed' = feed
              /\ waited' = waited
              /\ issued' \in {issued, issued + 1} ]_vars

\* The endpoint wait has issued two queries for the endpoint's handle.
C14_Witness ==
    /\ waited = "endpoint"
    /\ waitpc = "sleep"
    /\ issued = 2
    /\ wait_arg = "endpoint_arn"
    /\ calls["create_endpoint"] = 1
    /\ calls["describe_endpoint"] = 1

\* C17: when the first maxAttempts - 1 answers are retry statuses and answer
\* number maxAttempts is a success (failure) status, wait() ends in Success
\* (OperationFailed) with that status, not in Timeout.
C17_TerminalAtLastAttempt ==
    \A k \in Kinds :
        (/\ Ended(k)
         /\ feed.lead = MaxAttempts(k) - 1
         /\ feed.tail \in SuccessStatuses(k) \cup FailureStatuses(k))
            => /\ outcome[k].kind = (IF feed.tail \in SuccessStatuses(k)
                                     THEN "success" ELSE "failure")
               /\ outcome[k].status = feed.tail
               /\ issued = MaxAttempts(k)
               /\ num_attempts = MaxAttempts(k)

\* FAILED is the endpoint's answer to query number 100.
C17_Witness ==
    /\ Ended("endpoint")
    /\ feed = [lead |-> 99, tail |-> "FAILED"]
    /\ outcome["endpoint"].kind = "failure"
    /\ issued = 100

\* C20 (as stated): create_role is about to be called only when the account
\* has no role named ComprehendRole.
C20_CreateRoleOnlyWhenAbsent ==
    stage = "create_role" => ~role_exists

\* C12: a wait() that has been entered ends, in one of the outcomes
\* success, failure, timeout, error or exception, and never issues more than
\* maxAttempts queries on the way, whatever the remote operation answers.
C12_WaitTerminates ==
    /\ [](\A k \in Kinds : waited = k => issued <= MaxAttempts(k))
    /\ \A k \in Kinds :
          (waited = k /\ waitpc # "idle")
              ~> (/\ Ended(k)
                  /\ waitpc = "idle"
                  /\ outcome[k].kind \in {"success", "failure", "timeout",
                                          "error", "exception"})

\* The training wait ended after 300 retry statuses.
C12_Witness ==
    /\ Ended("training")
    /\ seen \subseteq RetryStatuses("training")
    /\ num_attempts = 300
    /\ outcome["training"].kind = "timeout"

\* The retry statuses among the answers of a wait whose answers are
\* feed.lead retry statuses followed by feed.tail, once every query issued
\* has been answered.
RetriesObserved == IF issued <= feed.lead THEN issued ELSE feed.lead

C16_OneQueryAfterRetry ==
    /\ inflight <= 1
    /\ \A k \in Kinds :
          (waited = k /\ waitpc = "inflight" /\ issued > 1)
              => /\ last_response \in RetryStatuses(k)
                 /\ sleeps = issued - 1

\* C18 (as stated): a wait never issues more than maxAttempts queries, and it
\* ends in Timeout only after exactly maxAttempts queries that all returned
\* a retry status.
C18_TimeoutOnlyAfterAllRetry ==
    \A k \in Kinds :
        waited = k =>
            /\ issued <= MaxAttempts(k)
            /\ (Ended(k) /\ outcome[k].kind = "timeout")
                  => /\ issued = MaxAttempts(k)
                     /\ seen \subseteq RetryStatuses(k)

====
